---- MODULE Spec2Model ----
(***************************************************************************)
(* Model of recruitment_app/app.py: a Flask application with three request *)
(* handlers (index, new_role, view_role) over one SQLite database file     *)
(* holding the tables roles and candidates.                                *)
(*                                                                         *)
(* Requests are served by worker threads.  Every sqlite3 statement is one  *)
(* atomic step; the statement-free code between two statements belongs to  *)
(* the step of the statement before it.  A connection sees the committed   *)
(* tables plus its own uncommitted rows; SQLite admits one writing         *)
(* connection at a time (the RESERVED lock), and an INSERT that finds the  *)
(* lock taken either waits or gives up with "database is locked" once the  *)
(* connection's busy timeout has passed.                                   *)
(***************************************************************************)
EXTENDS Integers, Sequences, FiniteSets, TLC

VARIABLES
    roles,        \* committed rows of table roles
    candidates,   \* committed rows of table candidates
    lock,         \* thread whose connection holds the write lock, or NoThread
    rng,          \* state of the process-wide generator of module random
    leaked,       \* connections left open by handlers that have returned
    pc,           \* per thread: position in its handler
    request,      \* per thread: the request being served
    conn,         \* per thread: "none" or "open"
    pending,      \* per thread: rows inserted by its connection, not yet committed
    lastrowid,    \* per thread: cur.lastrowid
    title,        \* per thread: local title of new_role
    description,  \* per thread: local description of new_role
    role_id,      \* per thread: local role_id of new_role / view_role
    cands,        \* per thread: new_role's generated list still to insert
    role,         \* per thread: view_role's fetchone() result
    rows,         \* per thread: fetchall() result of index / view_role
    response,     \* per thread: the response the handler returned
    token,        \* history: the number of the create request a thread serves
    ncreates,     \* history: create requests that passed validation
    insertedBy,   \* history: <<role id, create request>> for every role INSERT
    redirects     \* history: <<create request, role id>> for every success redirect

dbvars  == <<roles, candidates, lock>>
locals  == <<title, description, role_id, cands, role, rows, lastrowid>>
history == <<token, ncreates, insertedBy, redirects>>
vars    == <<roles, candidates, lock, rng, leaked, pc, request, conn, pending, lastrowid,
             title, description, role_id, cands, role, rows, response,
             token, ncreates, insertedBy, redirects>>

----------------------------------------------------------------------------
(* Bounds of the model *)

NThreads   == 2      \* worker threads serving requests
MaxCreates == 2      \* create requests that reach the database
MaxSeed    == 0      \* initial states of the random generator
MaxSec     == 0      \* wall-clock seconds utcnow() may return

Threads  == 1..NThreads
NoThread == 0

(* Program constants *)

NumCandidates == 10
ScoreLow      == 60
ScoreHigh     == 100

SetMax(S) == IF S = {} THEN 0 ELSE CHOOSE m \in S : \A x \in S : x <= m

----------------------------------------------------------------------------
(* Module random.  The generator is a deterministic function of a hidden    *)
(* process-wide state; every call advances the state and derives its       *)
(* result from it.  A small linear congruential step stands for the        *)
(* library's generator.                                                    *)

RngNext(s) == (21 * s + 11) % 256

\* random.choice(seq) on the draw d
Choice(seq, d) == seq[(d % Len(seq)) + 1]

RandIntWide(a, b, d) == a + (d % (b - a + 2))

\* random.randint(a, b) on the draw d: a <= result <= b
RandInt(a, b, d) == a + (d % (b - a + 1))

first_names ==
    << "Aarav", "Liam", "Emma", "Noah", "Olivia", "Aria", "Ethan", "Mia",
       "Sophia", "Lucas", "Aaliyah", "Zara", "Jayden", "Alina", "David" >>
last_names ==
    << "Patel", "Johnson", "Singh", "Garcia", "Kumar", "Williams", "Chen",
       "Khan", "Brown", "Rodriguez", "Ali", "Davis", "Nguyen", "Lee", "Shah" >>
companies == << "TechNova", "DataSphere", "InnovateX", "CodeWorks", "NextGen" >>
locations ==
    << "San Francisco, CA", "Austin, TX", "Bangalore, India", "Dubai, UAE", "Remote" >>
match_reasons ==
    << "Relevant experience in similar role",
       "Strong technical skills matching JD",
       "Excellent cultural alignment",
       "Recent experience at high-growth startup",
       "Highly recommended by references" >>

\* str.lower() on the names of the two pools
Lower(name) ==
    LET lower_first ==
            << "aarav", "liam", "emma", "noah", "olivia", "aria", "ethan", "mia",
               "sophia", "lucas", "aaliyah", "zara", "jayden", "alina", "david" >>
        lower_last ==
            << "patel", "johnson", "singh", "garcia", "kumar", "williams", "chen",
               "khan", "brown", "rodriguez", "ali", "davis", "nguyen", "lee", "shah" >>
    IN  IF \E k \in 1..Len(first_names) : first_names[k] = name
        THEN lower_first[CHOOSE k \in 1..Len(first_names) : first_names[k] = name]
        ELSE lower_last[CHOOSE k \in 1..Len(last_names) : last_names[k] = name]

\* The five f-string templates of current_title: text before and after the title
TitleVariants(role_title) ==
    << <<"Senior ", role_title, "">>,
       <<"", role_title, " II">>,
       <<"Lead ", role_title, "">>,
       <<"", role_title, " Specialist">>,
       <<"", role_title, " Consultant">> >>

\* One iteration of the loop of generate_dummy_candidates, from generator
\* state s: the candidate dictionary and the state after its nine draws.
GenerateOne(role_title, s) ==
    LET d1 == RngNext(s)
        d2 == RngNext(d1)
        d3 == RngNext(d2)
        d4 == RngNext(d3)
        d5 == RngNext(d4)
        d6 == RngNext(d5)
        d7 == RngNext(d6)
        d8 == RngNext(d7)
        d9 == RngNext(d8)
        first == Choice(first_names, d1)
        last  == Choice(last_names, d2)
    IN  [ candidate |->
            [ name             |-> <<first, " ", last>>,
              current_title    |-> Choice(TitleVariants(role_title), d3),
              company          |-> Choice(companies, d4),
              location         |-> Choice(locations, d5),
              linkedin         |-> <<"https://linkedin.com/in/", Lower(first), Lower(last)>>,
              match_reason     |-> Choice(match_reasons, d6),
              fit_score        |-> RandInt(ScoreLow, ScoreHigh, d7),
              culture_score    |-> RandInt(ScoreLow, ScoreHigh, d8),
              experience_score |-> RandInt(ScoreLow, ScoreHigh, d9) ],
          rng |-> d9 ]

GenerateShort(role_title, num_candidates, s) ==
    LET gen[k \in 0..num_candidates] ==
            IF k = 0 THEN [list |-> <<>>, rng |-> s]
            ELSE LET before == gen[k - 1]
                     one    == GenerateOne(role_title, before.rng)
                 IN  [ list |-> Append(before.list, one.candidate),
                       rng  |-> one.rng ]
    IN  gen[num_candidates - 1]

\* generate_dummy_candidates(role_title, num_candidates) from generator state
\* s: the list of candidates and the generator state afterwards.
GenerateDummyCandidates(role_title, num_candidates, s) ==
    LET gen[k \in 0..num_candidates] ==
            IF k = 0 THEN [list |-> <<>>, rng |-> s]
            ELSE LET before == gen[k - 1]
                     one    == GenerateOne(role_title, before.rng)
                 IN  [ list |-> Append(before.list, one.candidate),
                       rng  |-> one.rng ]
    IN  gen[num_candidates]

----------------------------------------------------------------------------
(* datetime.utcnow().isoformat().  An instant is [sec, usec]; its text is  *)
(* a sequence of character codes: the zero-padded seconds (standing for    *)
(* the fixed-width "YYYY-MM-DDTHH:MM:SS"), then "." and six digits of      *)
(* microseconds unless the microseconds are 0.                             *)

USecs == {0, 250000}
Times == [sec : 0..MaxSec, usec : USecs]

Pow10(n) == IF n = 0 THEN 1 ELSE IF n = 1 THEN 10 ELSE IF n = 2 THEN 100
            ELSE IF n = 3 THEN 1000 ELSE IF n = 4 THEN 10000 ELSE 100000

\* n as `width` decimal digits, zero padded, as character codes ("0" is 48)
Digits(n, width) == [k \in 1..width |-> 48 + ((n \div Pow10(width - k)) % 10)]

IsoFormat(t) ==
    IF t.usec = 0 THEN Digits(t.sec, 2)
    ELSE Digits(t.sec, 2) \o <<46>> \o Digits(t.usec, 6)

----------------------------------------------------------------------------
(* SQLite *)

\* TEXT comparison under the BINARY collation: memcmp, then the length
TextLess(a, b) ==
    \E k \in 1..Len(b) :
        /\ k <= Len(a) + 1
        /\ \A j \in 1..(k - 1) : a[j] = b[j]
        /\ (k = Len(a) + 1 \/ a[k] < b[k])

\* INTEGER PRIMARY KEY AUTOINCREMENT: one more than the largest id in use
\* (no row is ever deleted)
NextRowId(table) == SetMax({r.id : r \in table}) + 1

\* The rows of a table in rowid order, as a table scan yields them
Scan(table) ==
    [k \in 1..Cardinality(table) |->
        CHOOSE r \in table : Cardinality({q \in table : q.id < r.id}) = k - 1]

\* The sorter: the rows of `input` reordered; before[j, k] tells that row j
\* must precede row k, and rows that compare equal keep their input order.
Sorter(input, before) ==
    LET Precedes(j, k) == before[j, k] \/ (~before[k, j] /\ j < k)
        place == [k \in 1..Len(input) |->
                     1 + Cardinality({j \in 1..Len(input) : Precedes(j, k)})]
    IN  [p \in 1..Len(input) |-> input[CHOOSE k \in 1..Len(input) : place[k] = p]]

\* SELECT * FROM roles WHERE id = ?  -- fetchone(): no row or one row
SelectRole(R, id) ==
    LET found == Scan({r \in R : r.id = id})
    IN  IF found = <<>> THEN <<>> ELSE <<found[1]>>

SelectCandidatesAscending(C, id) ==
    LET found == Scan({c \in C : c.role_id = id})
    IN  Sorter(found, [j, k \in 1..Len(found) |-> found[j].fit_score < found[k].fit_score])

\* SELECT * FROM candidates WHERE role_id = ? ORDER BY fit_score DESC
SelectCandidates(C, id) ==
    LET found == Scan({c \in C : c.role_id = id})
    IN  Sorter(found, [j, k \in 1..Len(found) |-> found[j].fit_score > found[k].fit_score])

\* roles r LEFT JOIN candidates c ON r.id = c.role_id: a role without a
\* candidate is joined to one all-NULL candidate (c is then <<>>)
LeftJoin(R, C) ==
    {[r |-> p[1], c |-> <<p[2]>>] : p \in {q \in R \X C : q[1].id = q[2].role_id}}
        \cup {[r |-> x, c |-> <<>>] : x \in {y \in R : \A c \in C : c.role_id # y.id}}

SelectRolesCountStar(R, C) ==
    LET joined   == LeftJoin(R, C)
        group(r) == {j \in joined : j.r.id = r.id}
        Row(r)   == [ id |-> r.id, title |-> r.title, date_created |-> r.date_created,
                      candidate_count |-> Cardinality(group(r)) ]
        grouped  == Scan({j.r : j \in joined})
    IN  Sorter([k \in 1..Len(grouped) |-> Row(grouped[k])],
               [j, k \in 1..Len(grouped) |->
                   TextLess(grouped[k].date_created, grouped[j].date_created)])

\* SELECT r.id, r.title, r.date_created, COUNT(c.id) AS candidate_count
\* FROM roles r LEFT JOIN candidates c ON r.id = c.role_id
\* GROUP BY r.id ORDER BY r.date_created DESC
\* COUNT(c.id) counts the joined rows of the group whose c.id is not NULL.
SelectRolesWithCounts(R, C) ==
    LET joined   == LeftJoin(R, C)
        group(r) == {j \in joined : j.r.id = r.id}
        Row(r)   == [ id |-> r.id, title |-> r.title, date_created |-> r.date_created,
                      candidate_count |-> Cardinality({j \in group(r) : j.c # <<>>}) ]
        grouped  == Scan({j.r : j \in joined})
    IN  Sorter([k \in 1..Len(grouped) |-> Row(grouped[k])],
               [j, k \in 1..Len(grouped) |->
                   TextLess(grouped[k].date_created, grouped[j].date_created)])

----------------------------------------------------------------------------
(* Requests and responses *)

\* request.form of a POST /role/new: each field absent, empty or filled in
Titles       == {"", "Backend Engineer"}
Descriptions == {"", "Own our API"}
Forms ==
    LET Opt(S) == {<<>>} \cup {<<x>> : x \in S}
        FormOf(a, b) ==
            CASE a = <<>> /\ b = <<>> -> [k \in {} |-> ""]
              [] a # <<>> /\ b = <<>> -> [title |-> a[1]]
              [] a = <<>> /\ b # <<>> -> [description |-> b[1]]
              [] OTHER                -> [title |-> a[1], description |-> b[1]]
    IN  {FormOf(a, b) : a \in Opt(Titles), b \in Opt(Descriptions)}

\* request.form.get(key): None (the empty sequence) or the one value
FormGet(form, key) == IF key \in DOMAIN form THEN <<form[key]>> ELSE <<>>

FalsyNoneOnly(v) == v = <<>>

\* Python's `not v` for v a str or None
Falsy(v) == IF v = <<>> THEN TRUE ELSE v[1] = ""

NoForm    == [k \in {} |-> ""]
NoRequest == [method |-> "", endpoint |-> "", form |-> NoForm, role_id |-> 0]

\* A request for `endpoint`, with its form fields and its <int:role_id>
Request(method, endpoint, form, id) ==
    [method |-> method, endpoint |-> endpoint, form |-> form, role_id |-> id]

NoData     == [role |-> <<>>, rows |-> <<>>]
NoResponse == [status |-> 0, target |-> <<>>, flash |-> <<>>, data |-> NoData]

\* redirect(url_for(...)) after flash(message, category)
Redirect(endpoint, message) ==
    [status |-> 302, target |-> endpoint, flash |-> message, data |-> NoData]

\* render_template(template, ...)
Render(template, data) ==
    [status |-> 200, target |-> <<template>>, flash |-> <<>>, data |-> data]

\* an exception that leaves the handler: Flask answers 500
ServerError == [status |-> 500, target |-> <<>>, flash |-> <<>>, data |-> NoData]

MissingFieldsFlash == <<"Please provide both a title and a job description.", "danger">>
CreatedFlash       == <<"Role created and candidates generated successfully!", "success">>
NotFoundFlash      == <<"Role not found.", "danger">>

NoPending == [roles |-> {}, candidates |-> {}]

----------------------------------------------------------------------------
(* Initial state: init_db has created the two tables, both empty; no       *)
(* request is being served.                                                *)

Init ==
    /\ roles = {}
    /\ candidates = {}
    /\ lock = NoThread
    /\ rng \in 0..MaxSeed
    /\ leaked = 0
    /\ pc = [t \in Threads |-> "idle"]
    /\ request = [t \in Threads |-> NoRequest]
    /\ conn = [t \in Threads |-> "none"]
    /\ pending = [t \in Threads |-> NoPending]
    /\ lastrowid = [t \in Threads |-> 0]
    /\ title = [t \in Threads |-> <<>>]
    /\ description = [t \in Threads |-> <<>>]
    /\ role_id = [t \in Threads |-> 0]
    /\ cands = [t \in Threads |-> <<>>]
    /\ role = [t \in Threads |-> <<>>]
    /\ rows = [t \in Threads |-> <<>>]
    /\ response = [t \in Threads |-> NoResponse]
    /\ token = [t \in Threads |-> 0]
    /\ ncreates = 0
    /\ insertedBy = {}
    /\ redirects = {}

\* The write lock is free for thread t's connection, or already its own
CanWrite(t) == lock \in {NoThread, t}

\* The rows a connection of thread t sees: the committed ones and its own
VisibleRoles(t)      == roles \cup pending[t].roles
VisibleCandidates(t) == candidates \cup pending[t].candidates

----------------------------------------------------------------------------
(* index: GET / *)

Index(t) ==
    /\ pc[t] = "idle"
    /\ request' = [request EXCEPT ![t] = Request("GET", "index", NoForm, 0)]
    /\ LET fetched == SelectRolesWithCounts(roles, candidates)
       IN  /\ rows' = [rows EXCEPT ![t] = fetched]
           /\ response' = [response EXCEPT ![t] =
                  Render("index.html", [role |-> <<>>, rows |-> fetched])]
    /\ pc' = [pc EXCEPT ![t] = "done"]
    /\ UNCHANGED <<dbvars, rng, leaked, conn, pending, lastrowid, title, description,
                   role_id, cands, role, history>>

----------------------------------------------------------------------------
(* new_role: GET and POST /role/new *)

NewRoleGet(t) ==
    /\ pc[t] = "idle"
    /\ request' = [request EXCEPT ![t] = Request("GET", "new_role", NoForm, 0)]
    /\ response' = [response EXCEPT ![t] = Render("new_role.html", NoData)]
    /\ pc' = [pc EXCEPT ![t] = "done"]
    /\ UNCHANGED <<dbvars, rng, leaked, conn, pending, locals, history>>

\* Lines 152-160: read the form, validate, open the connection
NewRolePost(t, form) ==
    /\ pc[t] = "idle"
    /\ request' = [request EXCEPT ![t] = Request("POST", "new_role", form, 0)]
    /\ title' = [title EXCEPT ![t] = FormGet(form, "title")]
    /\ description' = [description EXCEPT ![t] = FormGet(form, "description")]
    /\ IF Falsy(title'[t]) \/ Falsy(description'[t])
       THEN /\ response' = [response EXCEPT ![t] =
                   Redirect(<<"new_role">>, MissingFieldsFlash)]
            /\ pc' = [pc EXCEPT ![t] = "done"]
            /\ UNCHANGED <<conn, history>>
       ELSE /\ ncreates < MaxCreates
            /\ conn' = [conn EXCEPT ![t] = "open"]
            /\ ncreates' = ncreates + 1
            /\ token' = [token EXCEPT ![t] = ncreates + 1]
            /\ pc' = [pc EXCEPT ![t] = "insert_role"]
            /\ UNCHANGED <<response, insertedBy, redirects>>
    /\ UNCHANGED <<dbvars, rng, leaked, pending, role_id, cands, role, rows, lastrowid>>

\* Lines 161-165: INSERT INTO roles, then role_id = cur.lastrowid
NewRoleInsertRole(t) ==
    /\ pc[t] = "insert_role"
    /\ CanWrite(t)
    /\ \E now \in Times :
         LET id  == NextRowId(VisibleRoles(t))
             row == [ id |-> id, title |-> title[t][1], description |-> description[t][1],
                      date_created |-> IsoFormat(now) ]
         IN  /\ pending' = [pending EXCEPT ![t].roles = @ \cup {row}]
             /\ lastrowid' = [lastrowid EXCEPT ![t] = id]
             /\ role_id' = [role_id EXCEPT ![t] = id]
             /\ insertedBy' = insertedBy \cup {<<id, token[t]>>}
    /\ lock' = t
    /\ pc' = [pc EXCEPT ![t] = "commit_role"]
    /\ UNCHANGED <<roles, candidates, rng, leaked, request, conn, title, description, cands,
                   role, rows, response, token, ncreates, redirects>>

\* An INSERT that finds the write lock held by another connection until the
\* busy timeout has passed raises sqlite3.OperationalError; nothing catches
\* it, so the handler is left with the connection open.
Raise(t) ==
    /\ ~CanWrite(t)
    /\ response' = [response EXCEPT ![t] = ServerError]
    /\ pc' = [pc EXCEPT ![t] = "done"]
    /\ UNCHANGED <<dbvars, rng, leaked, request, conn, pending, locals, history>>

NewRoleInsertRoleBusy(t) ==
    /\ pc[t] = "insert_role"
    /\ Raise(t)

\* Lines 166-169: conn.commit(), then generate_dummy_candidates(title, 10)
NewRoleCommitRole(t) ==
    /\ pc[t] = "commit_role"
    /\ roles' = roles \cup pending[t].roles
    /\ pending' = [pending EXCEPT ![t].roles = {}]
    /\ lock' = NoThread
    /\ LET generated == GenerateDummyCandidates(title[t][1], NumCandidates, rng)
       IN  /\ cands' = [cands EXCEPT ![t] = generated.list]
           /\ rng' = generated.rng
           /\ pc' = [pc EXCEPT ![t] =
                  IF generated.list = <<>> THEN "commit_candidates" ELSE "insert_candidate"]
    /\ UNCHANGED <<candidates, leaked, request, conn, lastrowid, title, description, role_id,
                   role, rows, response, history>>

CandidateRoleIdFromCursor(t) == lastrowid[t]

\* The role_id bound to each candidate INSERT: the local set at line 165
CandidateRoleId(t) == role_id[t]

\* Lines 170-180: one iteration of the loop, INSERT INTO candidates
NewRoleInsertCandidate(t) ==
    /\ pc[t] = "insert_candidate"
    /\ CanWrite(t)
    /\ LET candidate == Head(cands[t])
           id  == NextRowId(VisibleCandidates(t))
           row == [ id |-> id, role_id |-> CandidateRoleId(t),
                    name |-> candidate.name,
                    current_title |-> candidate.current_title,
                    company |-> candidate.company,
                    location |-> candidate.location,
                    linkedin |-> candidate.linkedin,
                    match_reason |-> candidate.match_reason,
                    fit_score |-> candidate.fit_score,
                    culture_score |-> candidate.culture_score,
                    experience_score |-> candidate.experience_score ]
       IN  /\ pending' = [pending EXCEPT ![t].candidates = @ \cup {row}]
           /\ lastrowid' = [lastrowid EXCEPT ![t] = id]
    /\ lock' = t
    /\ cands' = [cands EXCEPT ![t] = Tail(@)]
    /\ pc' = [pc EXCEPT ![t] =
           IF Tail(cands[t]) = <<>> THEN "commit_candidates" ELSE "insert_candidate"]
    /\ UNCHANGED <<roles, candidates, rng, leaked, request, conn, title, description, role_id,
                   role, rows, response, history>>

NewRoleInsertCandidateBusy(t) ==
    /\ pc[t] = "insert_candidate"
    /\ Raise(t)

CreatedTargetFromCursor(t) == <<"view_role", lastrowid[t]>>

\* The target of the redirect after a create
CreatedTarget(t) == <<"view_role", role_id[t]>>

\* Lines 181-185: conn.commit(), conn.close(), flash, redirect to the role
NewRoleCommitCandidates(t) ==
    /\ pc[t] = "commit_candidates"
    /\ candidates' = candidates \cup pending[t].candidates
    /\ pending' = [pending EXCEPT ![t].candidates = {}]
    /\ lock' = NoThread
    /\ conn' = [conn EXCEPT ![t] = "none"]
    /\ response' = [response EXCEPT ![t] = Redirect(CreatedTarget(t), CreatedFlash)]
    /\ redirects' = redirects \cup {<<token[t], CreatedTarget(t)[2]>>}
    /\ pc' = [pc EXCEPT ![t] = "done"]
    /\ UNCHANGED <<roles, rng, leaked, request, locals, token, ncreates, insertedBy>>

----------------------------------------------------------------------------
(* view_role: GET /role/<int:role_id> *)

\* Lines 193-196: open the connection, SELECT the role
ViewRoleSelectRole(t, id) ==
    /\ pc[t] = "idle"
    /\ request' = [request EXCEPT ![t] = Request("GET", "view_role", NoForm, id)]
    /\ conn' = [conn EXCEPT ![t] = "open"]
    /\ role_id' = [role_id EXCEPT ![t] = id]
    /\ role' = [role EXCEPT ![t] = SelectRole(roles, id)]
    /\ pc' = [pc EXCEPT ![t] = "select_candidates"]
    /\ UNCHANGED <<dbvars, rng, leaked, pending, lastrowid, title, description, cands,
                   rows, response, history>>

ViewRoleResponseByCandidates(found, fetched) ==
    IF found = <<>> \/ fetched = <<>> THEN Redirect(<<"index">>, NotFoundFlash)
    ELSE Render("role.html", [role |-> found, rows |-> fetched])

\* The response of view_role once both results are fetched (lines 201-204)
ViewRoleResponse(found, fetched) ==
    IF found = <<>> THEN Redirect(<<"index">>, NotFoundFlash)
    ELSE Render("role.html", [role |-> found, rows |-> fetched])

\* Lines 197-204: SELECT the candidates, conn.close(), respond
ViewRoleSelectCandidates(t) ==
    /\ pc[t] = "select_candidates"
    /\ LET fetched == SelectCandidates(candidates, role_id[t])
       IN  /\ rows' = [rows EXCEPT ![t] = fetched]
           /\ response' = [response EXCEPT ![t] = ViewRoleResponse(role[t], fetched)]
    /\ conn' = [conn EXCEPT ![t] = "none"]
    /\ pc' = [pc EXCEPT ![t] = "done"]
    /\ UNCHANGED <<dbvars, rng, leaked, request, pending, lastrowid, title, description, role_id,
                   cands, role, history>>

----------------------------------------------------------------------------
(* The end of a request, and the fate of a connection left open *)

\* The response is sent and the thread is free for the next request; a
\* connection the handler did not close stays open.
Return(t) ==
    /\ pc[t] = "done"
    /\ pc' = [pc EXCEPT ![t] = "idle"]
    /\ request' = [request EXCEPT ![t] = NoRequest]
    /\ leaked' = IF conn[t] = "open" THEN leaked + 1 ELSE leaked
    /\ conn' = [conn EXCEPT ![t] = "none"]
    /\ pending' = [pending EXCEPT ![t] = NoPending]
    /\ lastrowid' = [lastrowid EXCEPT ![t] = 0]
    /\ title' = [title EXCEPT ![t] = <<>>]
    /\ description' = [description EXCEPT ![t] = <<>>]
    /\ role_id' = [role_id EXCEPT ![t] = 0]
    /\ cands' = [cands EXCEPT ![t] = <<>>]
    /\ role' = [role EXCEPT ![t] = <<>>]
    /\ rows' = [rows EXCEPT ![t] = <<>>]
    /\ response' = [response EXCEPT ![t] = NoResponse]
    /\ token' = [token EXCEPT ![t] = 0]
    /\ UNCHANGED <<dbvars, rng, ncreates, insertedBy, redirects>>

\* A connection nobody refers to any more is closed when the interpreter
\* collects it, which may be at any later time or never.
Finalize ==
    /\ leaked > 0
    /\ leaked' = leaked - 1
    /\ UNCHANGED <<dbvars, rng, pc, request, conn, pending, locals, response, history>>

----------------------------------------------------------------------------

Next ==
    \/ \E t \in Threads : Index(t)
    \/ \E t \in Threads : NewRoleGet(t)
    \/ \E t \in Threads : \E form \in Forms : NewRolePost(t, form)
    \/ \E t \in Threads : NewRoleInsertRole(t)
    \/ \E t \in Threads : NewRoleInsertRoleBusy(t)
    \/ \E t \in Threads : NewRoleCommitRole(t)
    \/ \E t \in Threads : NewRoleInsertCandidate(t)
    \/ \E t \in Threads : NewRoleInsertCandidateBusy(t)
    \/ \E t \in Threads : NewRoleCommitCandidates(t)
    \/ \E t \in Threads : \E id \in 1..(MaxCreates + 1) : ViewRoleSelectRole(t, id)
    \/ \E t \in Threads : ViewRoleSelectCandidates(t)
    \/ \E t \in Threads : Return(t)
    \/ Finalize

Spec == Init /\ [][Next]_vars

----------------------------------------------------------------------------
(* Properties *)

\* The committed candidates of the role with this id
CandidatesOf(id) == {c \in candidates : c.role_id = id}

\* The ids of the roles a create request inserted
InsertedIds(create) == {q[1] : q \in {x \in insertedBy : x[2] = create}}

\* Thread t takes a step out of position `at`
Leaves(t, at) == pc[t] = at /\ pc'[t] # at

\* A field of a form is missing or empty
Blank(form, key) == IF key \in DOMAIN form THEN form[key] = "" ELSE TRUE

\* The instant a date_created text denotes, in microseconds
Instant(text) ==
    LET Num(from, to) ==
            LET val[k \in (from - 1)..to] ==
                    IF k = from - 1 THEN 0 ELSE 10 * val[k - 1] + (text[k] - 48)
            IN  val[to]
    IN  Num(1, 2) * 1000000 + (IF Len(text) = 2 THEN 0 ELSE Num(4, 9))

\* C1: every create request that has completed (it was redirected to its
\* role) inserted one role, which is committed and has exactly 10 committed
\* candidates; no role ever has more than 10 candidates.
C1_CompletedCreateHasTenCandidates ==
    /\ \A p \in redirects :
          /\ Cardinality(InsertedIds(p[1])) = 1
          /\ \A id \in InsertedIds(p[1]) :
                /\ \E r \in roles : r.id = id
                /\ Cardinality(CandidatesOf(id)) = 10
    /\ \A r \in roles : Cardinality(CandidatesOf(r.id)) <= 10

C1_Witness ==
    /\ Cardinality(redirects) = 2
    /\ Cardinality(roles) = 2
    /\ Cardinality(candidates) = 20

\* C2: in every committed state each role has all 10 of its candidates.
C2_RoleAndCandidatesAtomic ==
    \A r \in roles : Cardinality(CandidatesOf(r.id)) = 10

\* C3: a POST /role/new whose title or description is missing or empty
\* changes no table and no connection's uncommitted rows, opens no
\* connection, flashes the validation message and redirects to the form.
C3_InvalidPostChangesNothing ==
    [][\A t \in Threads :
          ( /\ Leaves(t, "idle")
            /\ request'[t].method = "POST"
            /\ request'[t].endpoint = "new_role"
            /\ Blank(request'[t].form, "title") \/ Blank(request'[t].form, "description") )
          => /\ roles' = roles
             /\ candidates' = candidates
             /\ pending' = pending
             /\ conn'[t] = "none"
             /\ pc'[t] = "done"
             /\ response'[t].status = 302
             /\ response'[t].target = <<"new_role">>
             /\ response'[t].flash = MissingFieldsFlash]_vars

C3_Witness ==
    \E t \in Threads :
        /\ pc[t] = "done"
        /\ request[t].method = "POST"
        /\ request[t].form = [title |-> "", description |-> "Own our API"]
        /\ response[t].target = <<"new_role">>
        /\ roles # {}

\* C4: view_role takes the not-found path (flash, redirect to the list view)
\* exactly when its SELECT found no role with the id, which is exactly when
\* roles holds no row with that id; no step of view_role changes a table.
C4_NotFoundIffNoRole ==
    [][\A t \in Threads :
          /\ ( Leaves(t, "idle") /\ request'[t].endpoint = "view_role" )
             => /\ (role'[t] = <<>>) <=> (\A r \in roles : r.id # request'[t].role_id)
                /\ role'[t] # <<>> => role'[t][1].id = request'[t].role_id
                /\ roles' = roles /\ candidates' = candidates /\ pending' = pending
          /\ Leaves(t, "select_candidates")
             => /\ IF role[t] = <<>>
                   THEN /\ response'[t].status = 302
                        /\ response'[t].target = <<"index">>
                        /\ response'[t].flash = NotFoundFlash
                   ELSE /\ response'[t].status = 200
                        /\ response'[t].target = <<"role.html">>
                        /\ response'[t].flash = <<>>
                /\ roles' = roles /\ candidates' = candidates /\ pending' = pending]_vars

C4_Witness ==
    \E t \in Threads :
        /\ pc[t] = "done"
        /\ request[t].endpoint = "view_role"
        /\ response[t].flash = NotFoundFlash
        /\ roles # {}

\* C5: every candidate row, committed or visible to the connection that
\* inserted it, has the role_id of a role row visible in the same place.
C5_ReferentialIntegrity ==
    /\ \A c \in candidates : \E r \in roles : r.id = c.role_id
    /\ \A t \in Threads :
          \A c \in VisibleCandidates(t) : \E r \in VisibleRoles(t) : r.id = c.role_id

C5_Witness ==
    /\ Cardinality(roles) = 2
    /\ Cardinality(candidates) = 10
    /\ \E t \in Threads : Cardinality(pending[t].candidates) = 9

\* C6: the list view holds one row per role, each with the number of that
\* role's candidates at the time of the read, newest date_created first.
C6_ListRolesWithCounts ==
    [][\A t \in Threads :
          ( Leaves(t, "idle") /\ request'[t].endpoint = "index" )
          => LET listed == response'[t].data.rows
             IN  /\ response'[t].status = 200
                 /\ response'[t].target = <<"index.html">>
                 /\ Len(listed) = Cardinality(roles)
                 /\ {listed[k].id : k \in 1..Len(listed)} = {r.id : r \in roles}
                 /\ \A k \in 1..Len(listed) :
                       /\ listed[k].candidate_count = Cardinality(CandidatesOf(listed[k].id))
                       /\ \E r \in roles :
                             /\ r.id = listed[k].id
                             /\ r.title = listed[k].title
                             /\ r.date_created = listed[k].date_created
                 /\ \A k \in 1..(Len(listed) - 1) :
                       Instant(listed[k].date_created) >= Instant(listed[k + 1].date_created)]_vars

C6_Witness ==
    \E t \in Threads :
        /\ pc[t] = "done"
        /\ request[t].endpoint = "index"
        /\ Len(response[t].data.rows) = 2
        /\ response[t].data.rows[1].candidate_count = 0
        /\ response[t].data.rows[2].candidate_count = 10
        /\ response[t].data.rows[1].date_created # response[t].data.rows[2].date_created

\* C7: for a role that exists, the detail view renders exactly the
\* candidates of the role at the time of the read, each once, with
\* fit_score non-increasing.
C7_CandidatesRankedByFit ==
    [][\A t \in Threads :
          ( Leaves(t, "select_candidates") /\ role[t] # <<>> )
          => LET ranked == response'[t].data.rows
             IN  /\ response'[t].data.role = role[t]
                 /\ Len(ranked) = Cardinality(CandidatesOf(request[t].role_id))
                 /\ {ranked[k] : k \in 1..Len(ranked)} = CandidatesOf(request[t].role_id)
                 /\ \A k \in 1..(Len(ranked) - 1) :
                       ranked[k].fit_score >= ranked[k + 1].fit_score]_vars

C7_Witness ==
    \E t \in Threads :
        /\ pc[t] = "done"
        /\ request[t].endpoint = "view_role"
        /\ Len(response[t].data.rows) = 10
        /\ response[t].data.rows[1].fit_score > response[t].data.rows[10].fit_score
        /\ \E k \in 1..9 :
              response[t].data.rows[k].fit_score = response[t].data.rows[k + 1].fit_score
        /\ Cardinality(candidates) = 20

\* C8: the three scores of every candidate row, committed or not, are
\* integers from 60 to 100.
C8_ScoresInRange ==
    \A c \in candidates \cup UNION {pending[t].candidates : t \in Threads} :
        /\ c.fit_score \in 60..100
        /\ c.culture_score \in 60..100
        /\ c.experience_score \in 60..100

C8_Witness ==
    /\ \E c \in candidates : 60 \in {c.fit_score, c.culture_score, c.experience_score}
    /\ \E c \in candidates : 100 \in {c.fit_score, c.culture_score, c.experience_score}

\* C9: a thread whose handler has returned has no open connection, and no
\* connection outlives the request that opened it.
C9_ConnectionsClosedOnReturn ==
    /\ \A t \in Threads : pc[t] \in {"idle", "done"} => conn[t] = "none"
    /\ leaked = 0

\* C10: every create request that was redirected was redirected to the id
\* of the role it inserted itself; no id was inserted by two requests and no
\* two requests were redirected to the same id.
C10_RedirectedToOwnRole ==
    /\ \A p \in redirects :
          /\ <<p[2], p[1]>> \in insertedBy
          /\ \A q \in insertedBy : q[1] = p[2] => q[2] = p[1]
    /\ \A p, q \in redirects : p[2] = q[2] => p[1] = q[1]
    /\ \A t \in Threads :
          ( pc[t] = "done" /\ response[t].flash = CreatedFlash )
          => /\ response[t].status = 302
             /\ response[t].target[1] = "view_role"
             /\ <<response[t].target[2], token[t]>> \in insertedBy
             /\ \E r \in roles : r.id = response[t].target[2]

C10_Witness ==
    /\ Cardinality(redirects) = 2
    /\ \E t \in Threads :
          /\ pc[t] = "done"
          /\ response[t].flash = CreatedFlash
          /\ response[t].target[2] = 1
          /\ token[t] = 2

====
